---- MODULE Spec2Model ----
(***************************************************************************)
(* A model of python_service/executor.py: the Value codec                  *)
(* (protobuf_to_python, python_to_protobuf) and the PythonExecutorServicer *)
(* (register_go_function, Execute, Health) served by a thread pool.        *)
(*                                                                         *)
(* Native (Python) values are records [k |-> type name, v |-> payload].    *)
(* Wire (protobuf Value) values are records [tag |-> the member of the     *)
(* oneof "value" that is set, or "NONE" when none is, val |-> payload].    *)
(***************************************************************************)
EXTENDS Integers, Sequences, FiniteSets, TLC

VARIABLES
    cpc,          \* codec harness: "in" -> "encoded" -> "decoded"
    cx,           \* codec harness: the native input
    cenc,         \* codec harness: python_to_protobuf(cx), [exc, w]
    cdec,         \* codec harness: protobuf_to_python(cenc.w)
    go_functions, \* self.go_functions, an insertion-ordered dict: a sequence of <<name, func>>
    pc,           \* per worker thread: the position of the call it serves
    request,      \* per worker thread: the ExecuteRequest being served
    exec_globals, \* per worker thread: the scope dict of its call
    output,       \* per worker thread: the StringIO of its call (its text so far)
    iter,         \* per worker thread: the dict iterator of line 115, [len, i]
    ip,           \* per worker thread: the next statement of request.code
    response,     \* per worker thread: what its call returned (or the fault it let through)
    started,      \* calls accepted so far
    registered    \* register_go_function calls so far

vars == <<cpc, cx, cenc, cdec, go_functions, pc, request, exec_globals, output,
          iter, ip, response, started, registered>>

codecVars == <<cpc, cx, cenc, cdec>>
serverVars == <<go_functions, pc, request, exec_globals, output, iter, ip,
                response, started, registered>>

(***************************************************************************)
(* Native values                                                           *)
(***************************************************************************)
None == [k |-> "NoneType", v |-> 0]
PyStr(s) == [k |-> "str", v |-> s]
PyInt(n) == [k |-> "int", v |-> n]
\* A Python int outside the signed 64-bit range (Python ints are unbounded;
\* such values are kept symbolically by their sign, s = 1 or s = -1).
PyBigInt(s) == [k |-> "bigint", v |-> s]
\* A float, kept in tenths: PyFloat(15) is 1.5.
PyFloat(t) == [k |-> "float", v |-> t]
PyBool(b) == [k |-> "bool", v |-> b]
PyList(s) == [k |-> "list", v |-> s]
\* A dict is its items in insertion order, keys distinct: a sequence of <<key, value>>.
PyDict(s) == [k |-> "dict", v |-> s]
\* A value of a type outside the codec's core set (a tuple), kept by its str().
PyTuple(text) == [k |-> "tuple", v |-> text]

RECURSIVE Join(_, _)
Join(texts, sep) ==
    IF Len(texts) = 0 THEN ""
    ELSE IF Len(texts) = 1 THEN texts[1]
    ELSE texts[1] \o sep \o Join(Tail(texts), sep)

\* str(value) and repr(value). The text of a function object holds its
\* address in Python; here it holds its name only.
RECURSIVE repr(_)
repr(value) ==
    CASE value.k = "NoneType" -> "None"
      [] value.k = "str" -> "'" \o value.v \o "'"
      [] value.k = "int" -> ToString(value.v)
      [] value.k = "bigint" ->
            IF value.v > 0 THEN "9223372036854775808" ELSE "-9223372036854775809"
      [] value.k = "float" -> ToString(value.v \div 10) \o "." \o ToString(value.v % 10)
      [] value.k = "bool" -> IF value.v THEN "True" ELSE "False"
      [] value.k = "list" ->
            "[" \o Join([i \in 1..Len(value.v) |-> repr(value.v[i])], ", ") \o "]"
      [] value.k = "dict" ->
            "{" \o Join([i \in 1..Len(value.v) |->
                           repr(value.v[i][1]) \o ": " \o repr(value.v[i][2])], ", ") \o "}"
      [] value.k = "tuple" -> value.v
      [] OTHER -> "<function " \o value.v \o ">"

str(value) == IF value.k = "str" THEN value.v ELSE repr(value)

\* isinstance(value, T): bool is a subclass of int in Python.
IsInstance(value, T) ==
    CASE T = "int" -> value.k \in {"int", "bigint", "bool"}
      [] OTHER -> value.k = T

\* int(value) of an int or a bool, for arithmetic and for storing in an int64 field.
IntOf(value) == IF value.k = "bool" THEN (IF value.v THEN 1 ELSE 0) ELSE value.v

(***************************************************************************)
(* Wire values                                                             *)
(***************************************************************************)
Wire(tag, val) == [tag |-> tag, val |-> val]
\* executor_pb2.Value(): no member of the oneof is set.
EmptyValue == Wire("NONE", 0)

Tags == {"str_value", "int_value", "float_value", "bool_value", "null_value",
         "list_value", "map_value"}

RECURSIVE SetToSeq(_)
SetToSeq(S) ==
    IF S = {} THEN <<>>
    ELSE LET e == CHOOSE e \in S : TRUE IN <<e>> \o SetToSeq(S \ {e})

RECURSIVE protobuf_to_python(_)
protobuf_to_python(value) ==
    LET which == value.tag IN
    CASE which = "str_value" -> PyStr(value.val)
      [] which = "int_value" -> PyInt(value.val)
      [] which = "float_value" -> PyFloat(value.val)
      [] which = "bool_value" -> PyBool(value.val)
      [] which = "null_value" -> None
      [] which = "list_value" ->
            PyList([i \in 1..Len(value.val) |-> protobuf_to_python(value.val[i])])
      [] which = "map_value" ->
            LET items == SetToSeq(value.val) IN
            PyDict([i \in 1..Len(items) |->
                      <<PyStr(items[i][1]), protobuf_to_python(items[i][2])>>])
      [] OTHER -> None

\* The outcome of an evaluation that may raise: exc = "" when it did not.
Ok(w) == [exc |-> "", msg |-> "", w |-> w]
Raised(exc, msg) == [exc |-> exc, msg |-> msg, w |-> EmptyValue]

\* The first outcome of a sequence of outcomes that raised, if any.
FirstRaised(rs) ==
    LET bad == {i \in 1..Len(rs) : rs[i].exc # ""} IN
    IF bad = {} THEN 0 ELSE CHOOSE i \in bad : \A j \in bad : i <= j

RECURSIVE python_to_protobuf(_)
python_to_protobuf(value) ==
    IF value.k = "NoneType" THEN Ok(Wire("null_value", 0))
    ELSE IF IsInstance(value, "str") THEN Ok(Wire("str_value", value.v))
    ELSE IF IsInstance(value, "int") THEN
        \* int_value is an int64 field: a value out of its range is refused.
        IF value.k = "bigint" THEN Raised("ValueError", "Value out of range")
        ELSE Ok(Wire("int_value", IntOf(value)))
    ELSE IF IsInstance(value, "float") THEN Ok(Wire("float_value", value.v))
    ELSE IF IsInstance(value, "bool") THEN Ok(Wire("bool_value", value.v))
    ELSE IF IsInstance(value, "list") THEN
        LET rs == [i \in 1..Len(value.v) |-> python_to_protobuf(value.v[i])]
            f == FirstRaised(rs)
        IN IF f # 0 THEN rs[f]
           \* reading result.list_value does not set the oneof; the first append does
           ELSE IF Len(value.v) = 0 THEN Ok(EmptyValue)
           ELSE Ok(Wire("list_value", [i \in 1..Len(rs) |-> rs[i].w]))
    ELSE IF IsInstance(value, "dict") THEN
        \* per item: the value is encoded first, then stored under the key,
        \* which the map<string, Value> field refuses when it is not a str
        \* (the store struct[k] = ... under a str key is taken to succeed)
        LET rs == [i \in 1..Len(value.v) |->
                     LET r == python_to_protobuf(value.v[i][2]) IN
                     IF r.exc # "" THEN r
                     ELSE IF value.v[i][1].k # "str"
                          THEN Raised("TypeError", "bad argument type for built-in operation")
                          ELSE r]
            f == FirstRaised(rs)
        IN IF f # 0 THEN rs[f]
           \* reading result.map_value.fields does not set the oneof; the first store does
           ELSE IF Len(value.v) = 0 THEN Ok(EmptyValue)
           ELSE Ok(Wire("map_value",
                        {<<value.v[i][1].v, rs[i].w>> : i \in 1..Len(rs)}))
    ELSE Ok(Wire("str_value", str(value)))


(***************************************************************************)
(* The servicer                                                            *)
(***************************************************************************)
\* The worker threads of the pool that serve Execute calls.
Threads == {1, 2}

\* The names of exec_globals['__builtins__'].
BuiltinNames ==
    {"print", "len", "range", "str", "int", "float", "bool", "list", "dict",
     "tuple", "set", "sum", "min", "max", "abs", "all", "any", "enumerate",
     "zip", "sorted", "reversed", "map", "filter"}

\* The names the comment of line 110 leaves out of the built-ins.
DeniedNames == {"eval", "exec", "open", "__import__"}

Builtin(n) == [k |-> "builtin", v |-> n]
GoFunc(f) == [k |-> "gofunc", v |-> f]

\* The name Execute reads the result from.
ResultNamedResult == "result"
ResultName == "__result__"

\* A dict of names: a function from the bound names to their values.
EmptyDict == [n \in {} |-> None]
Bind(d, n, value) == [m \in (DOMAIN d) \cup {n} |-> IF m = n THEN value ELSE d[m]]

\* The outcome of evaluating an expression: exc = "" when it did not raise;
\* out is the text it wrote to the call's output.
Val(value, out) == [exc |-> "", msg |-> "", val |-> value, out |-> out]
Exc(exc, msg) == [exc |-> exc, msg |-> msg, val |-> None, out |-> ""]

TypeName(value) == IF value.k = "bigint" THEN "int" ELSE value.k

\* The host callables the model registers: double doubles its argument,
\* boom raises an Exception, quit raises SystemExit (as sys.exit does).
GoFuncs == {"double", "boom", "quit"}

CallGoFunc(f, arg) ==
    CASE f = "double" ->
            IF arg.k \in {"int", "bool"} THEN Val(PyInt(2 * IntOf(arg)), "")
            ELSE IF arg.k = "bigint" THEN Val(arg, "")
            ELSE IF arg.k = "float" THEN Val(PyFloat(2 * arg.v), "")
            ELSE IF arg.k = "str" THEN Val(PyStr(arg.v \o arg.v), "")
            ELSE IF arg.k = "list" THEN Val(PyList(arg.v \o arg.v), "")
            ELSE Exc("TypeError", "unsupported operand type(s) for *: '"
                                   \o TypeName(arg) \o "' and 'int'")
      [] f = "boom" -> Exc("RuntimeError", "boom")
      [] f = "quit" -> Exc("SystemExit", "")

\* The built-ins the programs of the model call.
CallBuiltin(n, arg) ==
    CASE n = "print" -> Val(None, str(arg) \o "\n")
      [] n = "len" ->
            IF arg.k \in {"list", "dict"} THEN Val(PyInt(Len(arg.v)), "")
            ELSE IF arg.k = "str" THEN Val(PyInt(Len(arg.v)), "")
            ELSE Exc("TypeError", "object of type '" \o TypeName(arg) \o "' has no len()")
      [] n = "str" -> Val(PyStr(str(arg)), "")

\* A name read by the code: the globals first, then the built-ins.
Lookup(globals, n) ==
    IF n \in DOMAIN globals THEN Val(globals[n], "")
    ELSE IF n \in BuiltinNames THEN Val(Builtin(n), "")
    ELSE Exc("NameError", "name '" \o n \o "' is not defined")

Call(fn, arg) ==
    CASE fn.k = "builtin" -> CallBuiltin(fn.v, arg)
      [] fn.k = "gofunc" -> CallGoFunc(fn.v, arg)
      [] OTHER -> Exc("TypeError", "'" \o TypeName(fn) \o "' object is not callable")

\* left + right of Python, for the operand types the programs use.
Add(left, right) ==
    IF left.k \in {"int", "bool"} /\ right.k \in {"int", "bool"}
    THEN Val(PyInt(IntOf(left) + IntOf(right)), "")
    ELSE IF left.k = "str" /\ right.k = "str" THEN Val(PyStr(left.v \o right.v), "")
    ELSE Exc("TypeError", "unsupported operand type(s) for +: '" \o TypeName(left)
                           \o "' and '" \o TypeName(right) \o "'")

\* Expressions: a constant a; a name n; n + a; the call n(a); 1/0; and the
\* statement assert False.
Const(a) == [op |-> "const", n |-> "", a |-> a]
Name(n) == [op |-> "name", n |-> n, a |-> None]
Plus(n, a) == [op |-> "add", n |-> n, a |-> a]
CallOf(n, a) == [op |-> "call", n |-> n, a |-> a]
DivZero == [op |-> "div0", n |-> "", a |-> None]
AssertFalse == [op |-> "assert", n |-> "", a |-> None]

Eval(globals, e) ==
    CASE e.op = "const" -> Val(e.a, "")
      [] e.op = "name" -> Lookup(globals, e.n)
      [] e.op = "add" ->
            LET l == Lookup(globals, e.n) IN
            IF l.exc # "" THEN l ELSE Add(l.val, e.a)
      [] e.op = "call" ->
            LET f == Lookup(globals, e.n) IN
            IF f.exc # "" THEN f ELSE Call(f.val, e.a)
      [] e.op = "div0" -> Exc("ZeroDivisionError", "division by zero")
      [] e.op = "assert" -> Exc("AssertionError", "")

\* Statements: tgt = e, or the expression statement e when tgt = "".
Assign(tgt, e) == [tgt |-> tgt, e |-> e]
Do(e) == [tgt |-> "", e |-> e]

\* request.code: what compiling it gives, its statements or a SyntaxError.
Code(body) == [syntax |-> TRUE, body |-> body]
BadSyntax == [syntax |-> FALSE, body |-> <<>>]

\* except Exception: SystemExit, KeyboardInterrupt and GeneratorExit derive
\* from BaseException only.
ExceptException(exc) == exc \notin {"SystemExit", "KeyboardInterrupt", "GeneratorExit"}

\* ExecuteResponse; result is set only when has_result.
Success(result, logs) ==
    [success |-> TRUE, has_result |-> TRUE, result |-> result, logs |-> logs,
     error |-> "", fault |-> ""]
Failure(error) ==
    [success |-> FALSE, has_result |-> FALSE, result |-> EmptyValue, logs |-> <<>>,
     error |-> error, fault |-> ""]
\* No response: the exception left Execute.
Fault(exc) ==
    [success |-> FALSE, has_result |-> FALSE, result |-> EmptyValue, logs |-> <<>>,
     error |-> "", fault |-> exc]
NoResponse == Failure("")

NoRequest == [code |-> Code(<<>>), context |-> EmptyDict]
NoIter == [len |-> 0, i |-> 0]

(***************************************************************************)
(* The requests and registrations the model draws from                     *)
(***************************************************************************)
MaxRequests == 2
MaxRegs == 1

Req(body, context) == [code |-> Code(body), context |-> context]
Ctx(n, w) == Bind(EmptyDict, n, w)
WInt(n) == Wire("int_value", n)
List123 == PyList(<<PyInt(1), PyInt(2), PyInt(3)>>)

\* result = x + 1                       {x: 41}
ReqResultXPlus1 == Req(<<Assign("result", Plus("x", PyInt(1)))>>, Ctx("x", WInt(41)))
\* __result__ = x + 1                   {x: 41}
ReqDunderXPlus1 == Req(<<Assign("__result__", Plus("x", PyInt(1)))>>, Ctx("x", WInt(41)))
\* print('hi'); __result__ = [1, 2, 3]
ReqPrintHiList ==
    Req(<<Do(CallOf("print", PyStr("hi"))), Assign("__result__", Const(List123))>>, EmptyDict)
\* print('a'); print('b')
ReqPrintAB ==
    Req(<<Do(CallOf("print", PyStr("a"))), Do(CallOf("print", PyStr("b")))>>, EmptyDict)
\* print('a')                           {__result__: 9}
ReqCtxResult == Req(<<Do(CallOf("print", PyStr("a")))>>, Ctx("__result__", WInt(9)))
\* print('hi')                          {print: 1}
ReqCtxPrint == Req(<<Do(CallOf("print", PyStr("hi")))>>, Ctx("print", WInt(1)))
\* __result__ = 1/0
ReqDivZero == Req(<<Assign("__result__", DivZero)>>, EmptyDict)
\* eval('1')
ReqEval == Req(<<Do(CallOf("eval", PyStr("1")))>>, EmptyDict)
\* open = len; __result__ = open('ab')
ReqOpenRebound ==
    Req(<<Assign("open", Name("len")), Assign("__result__", CallOf("open", PyStr("ab")))>>,
        EmptyDict)
\* __result__ = double(21)
ReqDouble == Req(<<Assign("__result__", CallOf("double", PyInt(21)))>>, EmptyDict)
\* __result__ = double                  {double: 5}
ReqCtxDouble == Req(<<Assign("__result__", Name("double"))>>, Ctx("double", WInt(5)))
\* quit(0)
ReqQuit == Req(<<Do(CallOf("quit", PyInt(0)))>>, EmptyDict)
\* __result__ = x                       {x: 7}, {x: 8} and {}
ReqReadX(context) == Req(<<Assign("__result__", Name("x"))>>, context)
\* __result__ = 2 ** 63
ReqBigInt == Req(<<Assign("__result__", Const(PyBigInt(1)))>>, EmptyDict)
\* code that does not compile
ReqBadSyntax == [code |-> BadSyntax, context |-> EmptyDict]

Requests ==
    {ReqResultXPlus1, ReqDunderXPlus1, ReqPrintHiList, ReqPrintAB, ReqCtxResult,
     ReqCtxPrint, ReqDivZero, ReqEval, ReqOpenRebound, ReqDouble, ReqCtxDouble,
     ReqQuit, ReqReadX(Ctx("x", WInt(7))), ReqReadX(Ctx("x", WInt(8))),
     ReqReadX(EmptyDict), ReqBigInt, ReqBadSyntax}

\* The (name, func) pairs register_go_function is called with.
Registrations ==
    {<<"double", "double">>, <<"quit", "quit">>, <<"__result__", "double">>}

(***************************************************************************)
(* register_go_function, Execute, Health                                   *)
(***************************************************************************)
\* self.go_functions[name] = func: a new key goes last, a known key keeps its place.
DictSet(d, name, func) ==
    IF \E i \in 1..Len(d) : d[i][1] = name
    THEN [i \in 1..Len(d) |-> IF d[i][1] = name THEN <<name, func>> ELSE d[i]]
    ELSE Append(d, <<name, func>>)

register_go_function(name, func) ==
    /\ registered < MaxRegs
    /\ go_functions' = DictSet(go_functions, name, func)
    /\ registered' = registered + 1
    /\ UNCHANGED <<pc, request, exec_globals, output, iter, ip, response, started>>
    /\ UNCHANGED codecVars

\* The except clause of Execute: what the caller gets when exc is raised in the try.
HandleWithoutMessage(exc, msg) == IF ExceptException(exc) THEN Failure("") ELSE Fault(exc)
Handle(exc, msg) == IF ExceptException(exc) THEN Failure(msg) ELSE Fault(exc)

\* The call of thread t ends with the response resp.
Finish(t, resp) ==
    /\ response' = [response EXCEPT ![t] = resp]
    /\ pc' = [pc EXCEPT ![t] = IF resp.fault = "" THEN "done" ELSE "fault"]

\* The scope dict and the output buffer a call of thread t uses: its own,
\* exec_globals and output being locals of Execute.
SharedScope(t) == 1
ScopeOf(t) == t
SharedSink(t) == 1
SinkOf(t) == t

\* Lines 82-115: the call gets its StringIO and its exec_globals (the
\* built-ins are found by Lookup), and the loop over go_functions.items() begins.
\* The threads of the pool are interchangeable: the lowest idle one takes the call.
ExecuteStart(t, req) ==
    /\ pc[t] = "idle"
    /\ \A u \in Threads : u < t => pc[u] # "idle"
    /\ started < MaxRequests
    /\ started' = started + 1
    /\ request' = [request EXCEPT ![t] = req]
    /\ output' = [output EXCEPT ![SinkOf(t)] = ""]
    /\ exec_globals' = [exec_globals EXCEPT ![ScopeOf(t)] = EmptyDict]
    /\ iter' = [iter EXCEPT ![t] = [len |-> Len(go_functions), i |-> 1]]
    /\ pc' = [pc EXCEPT ![t] = "funcs"]
    /\ UNCHANGED <<go_functions, ip, response, registered>>
    /\ UNCHANGED codecVars

\* exec_globals[key] = protobuf_to_python(value) for every item of request.context.
BindContextUnlessBound(globals, context) ==
    [n \in (DOMAIN globals) \cup (DOMAIN context) |->
        IF n \in DOMAIN globals THEN globals[n] ELSE protobuf_to_python(context[n])]
BindContext(globals, context) ==
    [n \in (DOMAIN globals) \cup (DOMAIN context) |->
        IF n \in DOMAIN context THEN protobuf_to_python(context[n]) ELSE globals[n]]

\* Lines 115-124, one step of the loop over go_functions.items(): the dict
\* iterator raises when the dict changed size; otherwise the next function is
\* bound, or the loop ends, the context is bound and the code is compiled.
ExecuteBind(t) ==
    /\ pc[t] = "funcs"
    /\ IF Len(go_functions) # iter[t].len
       THEN /\ Finish(t, Handle("RuntimeError", "dictionary changed size during iteration"))
            /\ UNCHANGED <<exec_globals, iter, ip>>
       ELSE IF iter[t].i <= Len(go_functions)
       THEN /\ exec_globals' =
                 [exec_globals EXCEPT ![ScopeOf(t)] =
                     Bind(@, go_functions[iter[t].i][1], GoFunc(go_functions[iter[t].i][2]))]
            /\ iter' = [iter EXCEPT ![t].i = @ + 1]
            /\ UNCHANGED <<pc, ip, response>>
       ELSE IF ~request[t].code.syntax
       THEN /\ Finish(t, Handle("SyntaxError", "invalid syntax (<string>, line 1)"))
            /\ exec_globals' =
                 [exec_globals EXCEPT ![ScopeOf(t)] = BindContext(@, request[t].context)]
            /\ UNCHANGED <<iter, ip>>
       ELSE /\ exec_globals' =
                 [exec_globals EXCEPT ![ScopeOf(t)] = BindContext(@, request[t].context)]
            /\ pc' = [pc EXCEPT ![t] = "run"]
            /\ ip' = [ip EXCEPT ![t] = 1]
            /\ UNCHANGED <<iter, response>>
    /\ UNCHANGED <<go_functions, request, output, started, registered>>
    /\ UNCHANGED codecVars

\* Line 124, one statement of the code run by exec.
ExecuteStmt(t) ==
    /\ pc[t] = "run"
    /\ ip[t] <= Len(request[t].code.body)
    /\ LET stmt == request[t].code.body[ip[t]]
           r == Eval(exec_globals[ScopeOf(t)], stmt.e)
       IN IF r.exc # ""
          THEN /\ Finish(t, Handle(r.exc, r.msg))
               /\ UNCHANGED <<exec_globals, output, ip>>
          ELSE /\ output' = [output EXCEPT ![SinkOf(t)] = @ \o r.out]
               /\ exec_globals' =
                    IF stmt.tgt = "" THEN exec_globals
                    ELSE [exec_globals EXCEPT ![ScopeOf(t)] = Bind(@, stmt.tgt, r.val)]
               /\ ip' = [ip EXCEPT ![t] = @ + 1]
               /\ UNCHANGED <<pc, response>>
    /\ UNCHANGED <<go_functions, request, iter, started, registered>>
    /\ UNCHANGED codecVars

\* exec_globals.get('__result__', None)
GetResultOrEmptyText(globals) ==
    IF ResultName \in DOMAIN globals THEN globals[ResultName] ELSE PyStr("")
GetResult(globals) == IF ResultName \in DOMAIN globals THEN globals[ResultName] ELSE None

\* Lines 127-135: the code ran to its end; the result is read, encoded and returned.
ExecuteReturn(t) ==
    /\ pc[t] = "run"
    /\ ip[t] > Len(request[t].code.body)
    /\ LET result == GetResult(exec_globals[ScopeOf(t)])
           enc == python_to_protobuf(result)
       IN IF enc.exc # ""
          THEN Finish(t, Handle(enc.exc, enc.msg))
          ELSE Finish(t, Success(enc.w, <<output[SinkOf(t)]>>))
    /\ UNCHANGED <<go_functions, request, exec_globals, output, iter, ip, started,
                   registered>>
    /\ UNCHANGED codecVars

\* The response (or the fault) is handed to the caller and the thread is free
\* again; the locals of the call are gone.
Done(t) ==
    /\ pc[t] \in {"done", "fault", "health"}
    /\ pc' = [pc EXCEPT ![t] = "idle"]
    /\ request' = [request EXCEPT ![t] = NoRequest]
    /\ exec_globals' = [exec_globals EXCEPT ![ScopeOf(t)] = EmptyDict]
    /\ output' = [output EXCEPT ![SinkOf(t)] = ""]
    /\ iter' = [iter EXCEPT ![t] = NoIter]
    /\ ip' = [ip EXCEPT ![t] = 0]
    /\ response' = [response EXCEPT ![t] = NoResponse]
    /\ UNCHANGED <<go_functions, started, registered>>
    /\ UNCHANGED codecVars

\* Health, served by a thread of the pool like Execute: it reads nothing of
\* the servicer and returns the fixed response.
HealthResponse == [healthy |-> TRUE, version |-> "1.0.0"]

Health(t) ==
    /\ pc[t] = "idle"
    /\ \A u \in Threads : u < t => pc[u] # "idle"
    /\ started < MaxRequests
    /\ started' = started + 1
    /\ response' = [response EXCEPT ![t] = HealthResponse]
    /\ pc' = [pc EXCEPT ![t] = "health"]
    /\ UNCHANGED <<go_functions, request, exec_globals, output, iter, ip, registered>>
    /\ UNCHANGED codecVars

Init ==
    /\ cpc = "in"
    /\ cx = None
    /\ cenc = Ok(EmptyValue)
    /\ cdec = None
    /\ go_functions = <<>>
    /\ pc = [t \in Threads |-> "idle"]
    /\ request = [t \in Threads |-> NoRequest]
    /\ exec_globals = [t \in Threads |-> EmptyDict]
    /\ output = [t \in Threads |-> ""]
    /\ iter = [t \in Threads |-> NoIter]
    /\ ip = [t \in Threads |-> 0]
    /\ response = [t \in Threads |-> NoResponse]
    /\ started = 0
    /\ registered = 0

Register == \E r \in Registrations : register_go_function(r[1], r[2])
Start == \E t \in Threads, req \in Requests : ExecuteStart(t, req)
Bindings == \E t \in Threads : ExecuteBind(t)
Stmt == \E t \in Threads : ExecuteStmt(t)
Return == \E t \in Threads : ExecuteReturn(t)
Sent == \E t \in Threads : Done(t)
Probe == \E t \in Threads : Health(t)

Next == Register \/ Start \/ Bindings \/ Stmt \/ Return \/ Sent \/ Probe

Spec == Init /\ [][Next]_vars

(***************************************************************************)
(* The codec on its own: an input is drawn, encoded, and the encoding      *)
(* decoded.                                                                *)
(***************************************************************************)
MaxLen == 2

Atoms ==
    {None, PyStr(""), PyStr("a"), PyInt(0), PyInt(1), PyInt(-7), PyBigInt(1),
     PyBigInt(-1), PyFloat(15), PyBool(TRUE), PyBool(FALSE), PyTuple("(1, 2)")}

Keys == {PyStr("a"), PyStr("b"), PyInt(1)}

SeqsUpTo(S, n) == UNION {[1..m -> S] : m \in 0..n}

\* The dicts of at most n items over keys K and values S.
DictsUpTo(K, S, n) ==
    {d \in SeqsUpTo(K \X S, n) : \A i, j \in 1..Len(d) : i # j => d[i][1] # d[j][1]}

Containers(K, S, n) ==
    {PyList(s) : s \in SeqsUpTo(S, n)} \cup {PyDict(d) : d \in DictsUpTo(K, S, n)}

\* What the second nesting level is built from.
Inner ==
    {PyInt(1), PyBool(TRUE), PyBigInt(1), PyList(<<>>), PyList(<<PyBool(FALSE)>>),
     PyDict(<<>>), PyDict(<<<<PyStr("a"), PyInt(1)>>>>),
     PyDict(<<<<PyInt(1), None>>>>)}

Natives == Atoms \cup Containers(Keys, Atoms, MaxLen) \cup Containers(Keys, Inner, MaxLen)

CodecInit ==
    /\ cpc = "in"
    /\ cx \in Natives
    /\ cenc = Ok(EmptyValue)
    /\ cdec = None
    /\ go_functions = <<>>
    /\ pc = [t \in Threads |-> "idle"]
    /\ request = [t \in Threads |-> NoRequest]
    /\ exec_globals = [t \in Threads |-> EmptyDict]
    /\ output = [t \in Threads |-> ""]
    /\ iter = [t \in Threads |-> NoIter]
    /\ ip = [t \in Threads |-> 0]
    /\ response = [t \in Threads |-> NoResponse]
    /\ started = 0
    /\ registered = 0

Encode ==
    /\ cpc = "in"
    /\ cenc' = python_to_protobuf(cx)
    /\ cpc' = IF cenc'.exc = "" THEN "encoded" ELSE "raised"
    /\ UNCHANGED <<cx, cdec>>
    /\ UNCHANGED serverVars

Decode ==
    /\ cpc = "encoded"
    /\ cdec' = protobuf_to_python(cenc.w)
    /\ cpc' = "decoded"
    /\ UNCHANGED <<cx, cenc>>
    /\ UNCHANGED serverVars


CodecNext == Encode \/ Decode

CodecSpec == CodecInit /\ [][CodecNext]_vars


(***************************************************************************)
(* Properties of the codec, under CodecSpec                                *)
(***************************************************************************)
\* The values the round trip is claimed for: str, 64-bit int, float, bool,
\* None, and lists and str-keyed dicts of these.
RECURSIVE Representable(_)
Representable(x) ==
    CASE x.k \in {"NoneType", "str", "int", "float", "bool"} -> TRUE
      [] x.k = "list" -> \A i \in 1..Len(x.v) : Representable(x.v[i])
      [] x.k = "dict" ->
            \A i \in 1..Len(x.v) : x.v[i][1].k = "str" /\ Representable(x.v[i][2])
      [] OTHER -> FALSE

\* a and b are the same value of the same type (a dict whatever the order of its items).
RECURSIVE SameNative(_, _)
SameNative(a, b) ==
    /\ a.k = b.k
    /\ CASE a.k = "list" ->
              /\ Len(a.v) = Len(b.v)
              /\ \A i \in 1..Len(a.v) : SameNative(a.v[i], b.v[i])
         [] a.k = "dict" ->
              /\ Len(a.v) = Len(b.v)
              /\ \A i \in 1..Len(a.v) : \E j \in 1..Len(b.v) :
                    /\ SameNative(a.v[i][1], b.v[j][1])
                    /\ SameNative(a.v[i][2], b.v[j][2])
         [] OTHER -> a.v = b.v

\* C1 (as claimed): encoding a bool (True or False) gives a wire value whose
\* set member is bool_value, never int_value.
C1_BoolEncodesAsBool ==
    (cpc # "in" /\ cx.k = "bool") =>
        (cenc.exc = "" /\ cenc.w.tag = "bool_value" /\ cenc.w.tag # "int_value")

\* C2 (as claimed): for every representable native value x, encoding does not
\* fail and decode(encode(x)) is x, of the same type.
C2_RoundTrip ==
    (cpc # "in" /\ Representable(cx)) =>
        (cpc # "raised" /\ (cpc = "decoded" => SameNative(cdec, cx)))

\* C3 (as claimed): python_to_protobuf never raises and its result has
\* exactly one member of the oneof set, for every native input.
C3_EncodeTotal ==
    cpc # "in" => (cenc.exc = "" /\ cenc.w.tag \in Tags)


(***************************************************************************)
(* Properties of the servicer, under Spec                                  *)
(***************************************************************************)
Body(t) == request[t].code.body
Context(t) == request[t].context
\* The scope of the call of thread t, once the context is bound.
Running(t) == pc[t] \in {"run", "done"} /\ ip[t] >= 1
\* The code of the call of thread t ran to its end and Execute returned.
CodeCompleted(t) == pc[t] = "done" /\ ip[t] > Len(Body(t))
\* The names the code of thread t has assigned so far.
AssignedBefore(t) == {Body(t)[i].tgt : i \in 1..(ip[t] - 1)} \ {""}
Assigns(code, n) == \E i \in 1..Len(code.body) : code.body[i].tgt = n
RegisteredNames == {go_functions[i][1] : i \in 1..Len(go_functions)}
\* Thread t takes a step of its call.
Stepped(t) == pc'[t] # pc[t] \/ ip'[t] # ip[t] \/ iter'[t] # iter[t]
NullValue == Wire("null_value", 0)

\* C4 (as claimed): the code  result = x + 1  with context {x: 41}, run to its
\* end, returns success=true with result integer(42).
C4_ResultNamedResult ==
    \A t \in Threads :
        (CodeCompleted(t) /\ request[t] = ReqResultXPlus1) =>
            (response[t].success /\ response[t].result = WInt(42))

\* C4 (amended): the result is read from the name __result__. A successful
\* Execute returns the encoding of the value bound to __result__ in the scope
\* (of None when it is unbound);  __result__ = x + 1  with {x: 41} returns
\* success=true and integer(42), and  result = x + 1  does not return integer(42).
C4_ResultBinding ==
    \A t \in Threads :
        CodeCompleted(t) =>
            LET g == exec_globals[t]
                bound == IF "__result__" \in DOMAIN g THEN g["__result__"] ELSE None
            IN /\ response[t].success =>
                    /\ response[t].has_result
                    /\ response[t].result = python_to_protobuf(bound).w
               /\ request[t] = ReqDunderXPlus1 =>
                    (response[t].success /\ response[t].result = WInt(42))
               /\ request[t] = ReqResultXPlus1 =>
                    (response[t].success /\ response[t].result # WInt(42))

C4_Witness ==
    \E t \in Threads :
        /\ CodeCompleted(t)
        /\ request[t] = ReqDunderXPlus1
        /\ response[t].success
        /\ response[t].result = WInt(42)

\* C5 (as claimed): code that runs to its end and never assigns the result
\* name, under a context that does not bind it, returns success=true with the
\* null variant.
C5_MissingResultAsClaimed ==
    \A t \in Threads :
        (/\ CodeCompleted(t)
         /\ ~Assigns(request[t].code, "__result__")
         /\ "__result__" \notin DOMAIN Context(t)) =>
            (response[t].success /\ response[t].result = NullValue)

\* C5 (amended): the same, when in addition no callable is registered under
\* the result name.
C5_MissingResult ==
    \A t \in Threads :
        (/\ CodeCompleted(t)
         /\ ~Assigns(request[t].code, "__result__")
         /\ "__result__" \notin DOMAIN Context(t)
         /\ "__result__" \notin RegisteredNames) =>
            (response[t].success /\ response[t].result = NullValue)

C5_Witness ==
    \E t \in Threads :
        /\ CodeCompleted(t)
        /\ request[t] = ReqPrintAB
        /\ "__result__" \notin RegisteredNames
        /\ response[t].success
        /\ response[t].result = NullValue

\* C6: under every interleaving of the calls, the scope of a call binds each
\* key of its own context (that its code has not assigned) to the decoding of
\* its own value, and binds nothing but its context keys, registered names and
\* names its own code assigned; so  __result__ = x  returns the x of the
\* call's own context, and fails when its context has no x, whatever other
\* calls bound or assigned.
C6_ContextIsolation ==
    \A t \in Threads :
        Running(t) =>
            LET g == exec_globals[t] IN
            /\ \A n \in (DOMAIN Context(t)) \ AssignedBefore(t) :
                  n \in DOMAIN g /\ g[n] = protobuf_to_python(Context(t)[n])
            /\ DOMAIN g \subseteq
                  (DOMAIN Context(t)) \cup RegisteredNames \cup AssignedBefore(t)
            /\ (pc[t] = "done" /\ Body(t) = ReqReadX(EmptyDict).code.body) =>
                  IF "x" \in DOMAIN Context(t)
                  THEN response[t].success /\ response[t].result = Context(t)["x"]
                  ELSE ~response[t].success

C6_Witness ==
    \E t, u \in Threads :
        /\ CodeCompleted(t) /\ CodeCompleted(u)
        /\ request[t] = ReqReadX(Ctx("x", WInt(7)))
        /\ request[u] = ReqReadX(Ctx("x", WInt(8)))
        /\ response[t].result = WInt(7)
        /\ response[u].result = WInt(8)

\* The statement is a call of a name the built-ins leave out.
DeniedCall(stmt) == stmt.e.op = "call" /\ stmt.e.n \in DeniedNames

\* C7 (as claimed): a request whose code calls a denied name that neither its
\* context nor the registry binds returns success=false with a non-empty error.
C7_DeniedAsClaimed ==
    \A t \in Threads :
        (/\ pc[t] = "done"
         /\ \E i \in 1..Len(Body(t)) :
               /\ DeniedCall(Body(t)[i])
               /\ Body(t)[i].e.n \notin DOMAIN Context(t)
               /\ Body(t)[i].e.n \notin RegisteredNames) =>
            (~response[t].success /\ response[t].error # "")

\* C7 (amended): when a call runs a call of a denied name that is unbound in
\* its scope at that moment (bound neither by the context, nor by the
\* registry, nor by an earlier assignment of the code itself), Execute returns
\* success=false with the error "name '<n>' is not defined"; and no step of an
\* Execute or Health call changes the registry.
C7_DeniedCallFails ==
    [][\A t \in Threads :
          Stepped(t) =>
              /\ go_functions' = go_functions
              /\ (/\ pc[t] = "run"
                  /\ ip[t] <= Len(Body(t))
                  /\ DeniedCall(Body(t)[ip[t]])
                  /\ Body(t)[ip[t]].e.n \notin DOMAIN exec_globals[t]) =>
                    /\ pc'[t] = "done"
                    /\ ~response'[t].success
                    /\ response'[t].error
                          = "name '" \o Body(t)[ip[t]].e.n \o "' is not defined"]_vars

C7_Witness ==
    \E t \in Threads :
        /\ pc[t] = "done"
        /\ request[t] = ReqEval
        /\ ip[t] = 1
        /\ "eval" \notin DOMAIN exec_globals[t]
        /\ ~response[t].success
        /\ response[t].error = "name 'eval' is not defined"

\* C8 (as claimed): every Execute call returns a response, never a fault;
\* success=true carries a result and one log entry and no error, success=false
\* carries an error and no result or logs.
C8_AlwaysResponds ==
    \A t \in Threads :
        /\ pc[t] # "fault"
        /\ pc[t] = "done" =>
              IF response[t].success
              THEN response[t].has_result /\ response[t].error = ""
              ELSE /\ ~response[t].has_result
                   /\ response[t].logs = <<>>
                   /\ response[t].error # ""

\* What the code of thread t finds under the name n by the order of binding:
\* the context entry, else the callable the loop bound, else the built-in.
Expected(t, n) ==
    LET bound == {i \in 1..iter[t].len : go_functions[i][1] = n} IN
    IF n \in DOMAIN Context(t) THEN Val(protobuf_to_python(Context(t)[n]), "")
    ELSE IF bound # {} THEN Val(GoFunc(go_functions[CHOOSE i \in bound : TRUE][2]), "")
    ELSE IF n \in BuiltinNames THEN Val(Builtin(n), "")
    ELSE Exc("NameError", "name '" \o n \o "' is not defined")

WatchedNames ==
    {"print", "len", "str", "eval", "open", "x", "result", "__result__", "double", "quit"}

Precedence(t) ==
    Running(t) =>
        \A n \in WatchedNames \ AssignedBefore(t) :
            Lookup(exec_globals[t], n) = Expected(t, n)

\* C9: in every call, a name the code has not assigned is found as the
\* context entry of that name if there is one, else as the registered callable
\* of that name, else as the built-in of that name; and no step of a call
\* changes the registry, so what a context shadows is shadowed in that call only.
C9_ScopePrecedence ==
    [][\A t \in Threads :
          Stepped(t) => (go_functions' = go_functions /\ Precedence(t)')]_vars

C9_Witness ==
    \E t \in Threads :
        /\ CodeCompleted(t)
        /\ request[t] = ReqCtxDouble
        /\ \E i \in 1..iter[t].len : go_functions[i][1] = "double"
        /\ response[t].success
        /\ response[t].result = WInt(5)

\* The text the print calls of a body write, in order.
RECURSIVE Printed(_)
Printed(body) ==
    IF body = <<>> THEN ""
    ELSE (IF Head(body).e.op = "call" /\ Head(body).e.n = "print"
          THEN str(Head(body).e.a) \o "\n" ELSE "") \o Printed(Tail(body))

\* C10: under every interleaving of the calls, a successful Execute returns
\* logs of exactly one entry, the text its own code printed, in order ("" when
\* it printed nothing, "hi\n" for print('hi')); a failed one returns no logs.
C10_OutputCapture ==
    \A t \in Threads :
        pc[t] = "done" =>
            IF response[t].success
            THEN /\ Len(response[t].logs) = 1
                 /\ ("print" \notin (DOMAIN Context(t)) \cup RegisteredNames) =>
                        response[t].logs[1] = Printed(Body(t))
                 /\ request[t] = ReqPrintHiList => response[t].logs = <<"hi\n">>
                 /\ request[t] = ReqPrintAB => response[t].logs = <<"a\nb\n">>
                 /\ request[t] = ReqDunderXPlus1 => response[t].logs = <<"">>
            ELSE response[t].logs = <<>>

C10_Witness ==
    \E t, u \in Threads :
        /\ pc[t] = "done" /\ pc[u] = "done"
        /\ request[t] = ReqPrintHiList /\ response[t].logs = <<"hi\n">>
        /\ request[u] = ReqPrintAB /\ response[u].logs = <<"a\nb\n">>

====
